---- MODULE Spec2Model ----
(***************************************************************************)
(* A model of src/app.py, the reference verification tool: the text        *)
(* canonicalisation helpers, parse_reference, compare_metadata,            *)
(* verify_status and the batch loop of process_references.                 *)
(*                                                                         *)
(* Text.  A Python string is a sequence of atoms; an atom is a fragment    *)
(* of text that the regular expressions of the source either consume       *)
(* whole or not at all over the inputs drawn here ("doi:", "(1995)", a     *)
(* word, one space, one period).  Python's None is the one-atom sequence   *)
(* None, so that every optional string has the same shape.                 *)
(***************************************************************************)
EXTENDS Integers, Sequences, FiniteSets, TLC

VARIABLES
    lines,                  \* main: the text area split on newlines
    references,             \* main / process_references: raw_references
    idx,                    \* process_references: the loop index (1-based)
    pc,                     \* position in the code
    results,                \* process_references: results
    parsed,                 \* locals of one loop iteration ...
    oa_record_from_doi,
    doi_lookup_success,
    data_source,
    title_similarity_score,
    oa_record,
    matched_by_title,
    candidates,
    oa_meta,
    final_title_similarity,
    err,                    \* the exception that left process_references, if any
    calls,                  \* the requests sent for the current reference
    last_event,             \* the latest of "request" and "sleep", "" before both
    arg,                    \* pure-function runs: the argument
    ret                     \* pure-function runs: the values returned so far

vars == <<lines, references, idx, pc, results, parsed, oa_record_from_doi,
          doi_lookup_success, data_source, title_similarity_score, oa_record,
          matched_by_title, candidates, oa_meta, final_title_similarity, err,
          calls, last_event, arg, ret>>

loopVars == <<lines, references, idx, results, parsed, oa_record_from_doi,
              doi_lookup_success, data_source, title_similarity_score,
              oa_record, matched_by_title, candidates, oa_meta,
              final_title_similarity, err, calls, last_event>>

----------------------------------------------------------------------------
(* Bounds of the model. *)

MaxDoiLen == 3
MaxYearDelta == 3
MaxLines == 2
MaxCands == 2
MaxLineLen == 3

TITLE_THRESHOLD == 85
TITLE_MISMATCH_THRESHOLD == 70

----------------------------------------------------------------------------
(* Text primitives. *)

None == <<"<None>">>

Truthy(s) == s # None /\ s # <<>>

Unknown == <<"Unknown">>

Whitespace == {" "}

LowerAtom(a) ==
    CASE a = "DOI:"   -> "doi:"
      [] a = "ABC"    -> "abc"
      [] a = "XYZ"    -> "xyz"
      [] a = "Smith"  -> "smith"
      [] a = "Jones"  -> "jones"
      [] a = "Deep"   -> "deep"
      [] a = "Nature" -> "nature"
      [] a = "J"      -> "j"
      [] a = "Unknown" -> "unknown"
      [] OTHER        -> a

\* the number of characters of an atom
AtomLen(a) ==
    CASE a \in {" ", ",", ".", "J", "j", "\""}   -> 1
      [] a \in {"doi:", "DOI:", "1995", "Deep", "deep"} -> 4
      [] a \in {"Smith", "smith", "Jones", "jones"}     -> 5
      [] a \in {"(1995)", "(0000)", "Nature", "nature"} -> 6
      [] a \in {"10.1234/", "learning"}                 -> 8
      [] a \in {"abc", "ABC", "xyz", "XYZ"}             -> 3
      [] a = "10"                                       -> 2
      [] a \in {"Unknown", "unknown"}                   -> 7
      [] OTHER                                          -> 16

RECURSIVE StrLen(_)
StrLen(s) == IF s = <<>> THEN 0 ELSE AtomLen(Head(s)) + StrLen(Tail(s))

\* atoms whose first character is in [A-Z]
CapitalAtoms == {"Smith", "Jones", "Deep", "Nature", "J", "ABC", "XYZ", "DOI:",
                 "Unknown"}

\* atoms with a cased character and no lower-case one (str.isupper)
UpperAtoms == {"J", "ABC", "XYZ", "DOI:"}

\* str.lower()
Lower(s) == [i \in 1..Len(s) |-> LowerAtom(s[i])]

\* str.rstrip(chars), chars given as the set of atoms made of those characters
RECURSIVE RStrip(_, _)
RStrip(s, chars) ==
    IF s # <<>> /\ s[Len(s)] \in chars
    THEN RStrip(SubSeq(s, 1, Len(s) - 1), chars)
    ELSE s

RECURSIVE LStrip(_, _)
LStrip(s, chars) ==
    IF s # <<>> /\ Head(s) \in chars THEN LStrip(Tail(s), chars) ELSE s

\* str.strip()
Strip(s) == LStrip(RStrip(s, Whitespace), Whitespace)

\* the index of the first atom of s in S, 0 when there is none
FirstIn(s, S) ==
    IF \E i \in 1..Len(s) : s[i] \in S
    THEN CHOOSE i \in 1..Len(s) : s[i] \in S /\ \A j \in 1..(i - 1) : s[j] \notin S
    ELSE 0

\* s without its atoms in S (re.sub of a pattern that matches exactly those atoms)
RECURSIVE Without(_, _)
Without(s, S) ==
    IF s = <<>> THEN <<>>
    ELSE IF Head(s) \in S THEN Without(Tail(s), S)
    ELSE <<Head(s)>> \o Without(Tail(s), S)

\* str.split(): the maximal runs of non-whitespace atoms
RECURSIVE SplitWs(_)
SplitWs(s) ==
    LET t == LStrip(s, Whitespace)
        k == FirstIn(t, Whitespace)
    IN  IF t = <<>> THEN <<>>
        ELSE IF k = 0 THEN <<t>>
        ELSE <<SubSeq(t, 1, k - 1)>> \o SplitWs(SubSeq(t, k + 1, Len(t)))

\* all sequences over S of length at most n
SeqsUpTo(S, n) == UNION {[1..k -> S] : k \in 0..n}

----------------------------------------------------------------------------
(* Python values that are an integer, None or a string: a year is           *)
(* IntVal(n), NoneVal, or StrVal for the sentinel "Unknown".               *)

IntVal(n) == [t |-> "int", v |-> n]
NoneVal   == [t |-> "none", v |-> 0]
StrVal    == [t |-> "str", v |-> 0]

\* bool(x)
TruthyVal(x) == IF x.t = "int" THEN x.v # 0 ELSE x.t = "str"

Abs(n) == IF n < 0 THEN -n ELSE n

----------------------------------------------------------------------------
(* normalize_doi, lines 30-37. *)

UrlPrefixes == {"https://doi.org/"}     \* matches ^https?://(dx\.)?doi\.org/
DoiPrefixes == {"doi:", "DOI:"}         \* matches ^doi: under re.I
DoiTrailing == {".", ",", ";", ")"}     \* rstrip('.,;)')

\* re.sub(r'^<prefix>', '', s): drops the prefix once, at the start only
SubPrefix(s, prefixes) ==
    IF s # <<>> /\ Head(s) \in prefixes THEN Tail(s) ELSE s

normalize_doi(doi) ==
    IF ~Truthy(doi) THEN None
    ELSE Strip(Lower(RStrip(SubPrefix(SubPrefix(doi, UrlPrefixes), DoiPrefixes),
                            DoiTrailing)))

----------------------------------------------------------------------------
(* extract_surname, lines 40-63. *)

YearAnnotations == {"(1995)", "(0000)"}     \* matches \(\d{4}\)

\* parts[-1].replace('.', '').strip(), then the test of line 60
LooksLikeInitial(part) ==
    LET last_part == Strip(Without(part, {"."}))
    IN  /\ StrLen(last_part) <= 2
        /\ \/ (last_part # <<>> /\ \A i \in 1..Len(last_part) : last_part[i] \in UpperAtoms)
           \/ StrLen(last_part) = 1

extract_surname(author_name) ==
    IF ~Truthy(author_name) THEN <<>>
    ELSE
      LET name  == Strip(Without(author_name, YearAnnotations))
          comma == FirstIn(name, {","})
          parts == SplitWs(name)
      IN  IF comma # 0 THEN Lower(Strip(SubSeq(name, 1, comma - 1)))
          ELSE IF parts = <<>> THEN <<>>
          ELSE IF Len(parts) = 1 THEN Lower(parts[1])
          ELSE IF LooksLikeInitial(parts[Len(parts)]) THEN Lower(parts[1])
          ELSE Lower(parts[Len(parts)])

----------------------------------------------------------------------------
(* Results of calls. *)

\* the result of a call: the exception it raised ("" when it returned) and
\* the value it returned
Raise(e)   == [raises |-> e, value |-> <<>>]
Return(v)  == [raises |-> "", value |-> v]

----------------------------------------------------------------------------
(* parse_reference, lines 88-335, over lines made of words, spaces,        *)
(* commas, periods, a bare year, a year in parentheses, the quotation      *)
(* mark '"' and a DOI.  Such a line has no "vol.", "IEEE", ":" or ";", so  *)
(* is_ieee_style and is_vancouver are false and title patterns 2 and 5 do  *)
(* not apply; it has no month name, "Proceedings" or "Conference".  The    *)
(* journal, volume, issue and page fields are not part of the returned     *)
(* record here.                                                            *)

BareYear == "1995"
DoiStart == "10.1234/"                  \* matches 10\.\d{4,9}/
DotAtoms == {".", DoiStart}             \* atoms holding a '.' character
Quotes == {"\""}                        \* the quotation marks of lines 129-141

YearOf(a) == IF a = "(0000)" THEN 0 ELSE 1995

At(s, i) == IF i \in 1..Len(s) THEN s[i] ELSE ""

\* the number of whitespace atoms of s from index i on
RECURSIVE SpacesFrom(_, _)
SpacesFrom(s, i) ==
    IF At(s, i) \in Whitespace THEN 1 + SpacesFrom(s, i + 1) ELSE 0

\* line 91: a leading citation marker, [\[\(\{]?\d+[\]\)\}]\.?\s*
StripMarker(text) ==
    IF At(text, 1) \in YearAnnotations
    THEN LET d == IF At(text, 2) = "." THEN 1 ELSE 0
         IN  LStrip(SubSeq(text, 2 + d, Len(text)), Whitespace)
    ELSE text

\* lines 94-98 and 402-403: the first DOI-shaped span, a DoiStart and the
\* run of atoms other than whitespace and quotes after it, without trailing
\* punctuation
DoiSearch(text) ==
    LET stops  == Whitespace \cup Quotes
        starts == {i \in 1..Len(text) :
                     text[i] = DoiStart /\ At(text, i + 1) \notin stops \cup {""}}
    IN  IF starts = {} THEN None
        ELSE LET i == CHOOSE x \in starts : \A y \in starts : x <= y
                 rest == SubSeq(text, i, Len(text))
                 k == FirstIn(rest, stops)
                 span == IF k = 0 THEN rest ELSE SubSeq(rest, 1, k - 1)
             IN  RStrip(span, DoiTrailing)

\* line 109: \.\s+(\d{4})\.\s+[A-Z] at index i; the index after it, or 0
NarrativeYearAt(text, i) ==
    LET k1 == SpacesFrom(text, i + 1)
        y  == i + 1 + k1
        k2 == SpacesFrom(text, y + 2)
    IN  IF /\ At(text, i) = "." /\ k1 >= 1 /\ At(text, y) = BareYear
           /\ At(text, y + 1) = "." /\ k2 >= 1
        THEN y + 2 + k2 ELSE 0

\* line 118: ,\s*(\d{4})\.?\s*$
TrailingYearAt(text, i) ==
    LET y == i + 1 + SpacesFrom(text, i + 1)
        d == IF At(text, y + 1) = "." THEN 1 ELSE 0
    IN  /\ At(text, i) = "," /\ At(text, y) = BareYear
        /\ y + d + SpacesFrom(text, y + 1 + d) = Len(text)

\* line 122: [,\s](\d{4})[;,\.]
DelimitedYearAt(text, i) ==
    /\ At(text, i) \in {",", " "} /\ At(text, i + 1) = BareYear
    /\ At(text, i + 2) \in {",", "."}

\* lines 100-124: the year and whether it stood in parentheses
ParseYear(text) ==
    LET p == FirstIn(text, YearAnnotations)
    IN  IF p # 0 THEN [year |-> IntVal(YearOf(text[p])), in_parentheses |-> TRUE]
        ELSE IF \/ \E i \in 1..Len(text) :
                     NarrativeYearAt(text, i) # 0
                     /\ At(text, NarrativeYearAt(text, i)) \in CapitalAtoms \cup Quotes
                \/ \E i \in 1..Len(text) : TrailingYearAt(text, i)
                \/ \E i \in 1..Len(text) : DelimitedYearAt(text, i)
        THEN [year |-> IntVal(1995), in_parentheses |-> FALSE]
        ELSE [year |-> NoneVal, in_parentheses |-> FALSE]

\* [\.?!]\s+[A-Z] right after index q
Terminated(text, q) ==
    LET k == SpacesFrom(text, q + 2)
    IN  At(text, q + 1) = "." /\ k >= 1 /\ At(text, q + 2 + k) \in CapitalAtoms

\* (.+?)[\.?!]\s+[A-Z] after a greedy run of whitespace that ends before
\* index a: the shortest title from a on; failing that, when the run can
\* give one space back, that space.  None when there is no match.
LazyTitle(text, a, give_back) ==
    LET ends == {q \in a..Len(text) : Terminated(text, q)}
    IN  IF ends # {}
        THEN SubSeq(text, a, CHOOSE q \in ends : \A r \in ends : q <= r)
        ELSE IF give_back /\ Terminated(text, a - 1) THEN <<" ">>
        ELSE None

\* ["]?[\.?!]\s+[A-Z] right after index q
QuoteTerminated(text, q) ==
    \/ Terminated(text, q)
    \/ At(text, q + 1) \in Quotes /\ Terminated(text, q + 1)

\* the shortest run from s on that is followed by ["]?[\.?!]\s+[A-Z]
ShortestFrom(text, s) ==
    LET ends == {q \in s..Len(text) : QuoteTerminated(text, q)}
    IN  IF ends = {} THEN None
        ELSE SubSeq(text, s, CHOOSE q \in ends : \A r \in ends : q <= r)

\* ["]?(.+?)["]?[\.?!]\s+[A-Z] after a greedy run of whitespace that ends
\* before index a: the optional quote is taken first, then left to the
\* title, then one space of the run is given back
LazyQuotedTitle(text, a, give_back) ==
    LET after == IF At(text, a) \in Quotes THEN ShortestFrom(text, a + 1) ELSE None
        from  == ShortestFrom(text, a)
    IN  IF after # None THEN after
        ELSE IF from # None THEN from
        ELSE IF give_back /\ QuoteTerminated(text, a - 1) THEN <<" ">>
        ELSE None

\* the match of the leftmost index of `starts` at which Match finds one
LeftmostMatch(starts, Match(_)) ==
    LET hits == {i \in starts : Match(i) # None}
    IN  IF hits = {} THEN None
        ELSE Match(CHOOSE i \in hits : \A j \in hits : i <= j)

\* line 185 (the pattern of line 189 matches only where this one does)
NarrativeTitle(text) ==
    LET Match(i) ==
          LET a == NarrativeYearAt(text, i)
          IN  IF a = 0 THEN None
              ELSE LazyQuotedTitle(text, a, At(text, a - 2) \in Whitespace)
    IN  LeftmostMatch(1..Len(text), Match)

\* line 196: \(\d{4}\)\.\s*(.+?)[\.?!]\s+[A-Z]
ParenTitle1(text) ==
    LET Match(i) ==
          LET k == SpacesFrom(text, i + 2)
          IN  IF At(text, i) \in YearAnnotations /\ At(text, i + 1) = "."
              THEN LazyTitle(text, i + 2 + k, k >= 1)
              ELSE None
    IN  LeftmostMatch(1..Len(text), Match)

\* line 197: \(\d{4}\)\s+(.+?)[\.?!]\s+[A-Z]
ParenTitle2(text) ==
    LET Match(i) ==
          LET k == SpacesFrom(text, i + 1)
          IN  IF At(text, i) \in YearAnnotations /\ k >= 1
              THEN LazyTitle(text, i + 1 + k, k >= 2)
              ELSE None
    IN  LeftmostMatch(1..Len(text), Match)

\* lines 139 and 141: "([^"]+)", the first two successive quotes with text
\* between them, else ["](.+?)["], a quote and the first quote at least one
\* character further on
QuotedTitle(text) ==
    LET quotes == {i \in 1..Len(text) : text[i] \in Quotes}
        Next(i) == IF \E j \in quotes : j > i
                   THEN CHOOSE j \in quotes : j > i /\ \A k \in quotes : k > i => j <= k
                   ELSE 0
        apart  == {i \in quotes : Next(i) > i + 1}
        far    == {i \in quotes : \E j \in quotes : j >= i + 2}
        First(S) == CHOOSE i \in S : \A j \in S : i <= j
    IN  IF apart # {}
        THEN SubSeq(text, First(apart) + 1, Next(First(apart)) - 1)
        ELSE IF far # {}
        THEN LET i == First(far)
             IN  SubSeq(text, i + 1,
                        (CHOOSE j \in quotes : j >= i + 2
                             /\ \A k \in quotes : k >= i + 2 => j <= k) - 1)
        ELSE None

\* lines 131-213: the title patterns, in order
RawTitle(text, y) ==
    LET quoted == QuotedTitle(text)
    IN  IF quoted # None THEN Strip(quoted)
        ELSE IF ~y.in_parentheses /\ TruthyVal(y.year)
        THEN LET m == NarrativeTitle(text)
             IN  IF m # None THEN Strip(m) ELSE Unknown
        ELSE IF y.in_parentheses
        THEN LET m1 == ParenTitle1(text)
                 m2 == ParenTitle2(text)
             IN  IF m1 # None /\ StrLen(Strip(m1)) > 10 THEN Strip(m1)
                 ELSE IF m2 # None /\ StrLen(Strip(m2)) > 10 THEN Strip(m2)
                 ELSE Unknown
        ELSE Unknown

\* lines 131-220: the title without its quotation marks
ParseTitle(text, y) ==
    LET title == RawTitle(text, y)
    IN  IF title = Unknown THEN Unknown ELSE Strip(Without(title, Quotes))

\* re.sub(r'\.\s*\d{4}\.', '', s), line 323
RECURSIVE WithoutNarrativeYear(_)
WithoutNarrativeYear(s) ==
    LET y == 2 + SpacesFrom(s, 2)
    IN  IF s = <<>> THEN <<>>
        ELSE IF Head(s) = "." /\ At(s, y) = BareYear /\ At(s, y + 1) = "."
        THEN WithoutNarrativeYear(SubSeq(s, y + 2, Len(s)))
        ELSE <<Head(s)>> \o WithoutNarrativeYear(Tail(s))

\* the index at which sub first occurs in s (str.find, 1-based), 0 if nowhere
Find(s, sub) ==
    LET at == {i \in 1..(Len(s) - Len(sub) + 1) : SubSeq(s, i, i + Len(sub) - 1) = sub}
    IN  IF at = {} THEN 0 ELSE CHOOSE i \in at : \A j \in at : i <= j

\* raw_ref.split('.')[0]
BeforeFirstDot(raw_ref) ==
    LET d == FirstIn(raw_ref, DotAtoms)
    IN  SubSeq(raw_ref, 1, d - 1) \o (IF raw_ref[d] = DoiStart THEN <<"10">> ELSE <<>>)

\* lines 317 and 319
AuthorWithoutYear(raw_ref) ==
    IF FirstIn(raw_ref, DotAtoms) # 0 THEN Return(Strip(BeforeFirstDot(raw_ref)))
    ELSE IF SplitWs(raw_ref) = <<>> THEN Raise("IndexError")
    ELSE Return(SplitWs(raw_ref)[1])

\* lines 303-319
FirstAuthor(raw_ref, y) ==
    LET comma == FirstIn(raw_ref, {","})
        year_str == IF y.in_parentheses THEN <<"(1995)">>
                    ELSE <<".", " ", BareYear, ".">>
        year_pos == Find(raw_ref, year_str)
    IN  IF comma # 0 THEN Return(Strip(SubSeq(raw_ref, 1, comma - 1)))
        ELSE IF TruthyVal(y.year) /\ year_pos > 1
        THEN Return(Strip(SubSeq(raw_ref, 1, year_pos - 1)))
        ELSE AuthorWithoutYear(raw_ref)

parse_reference(raw_ref) ==
    LET text   == StripMarker(Strip(raw_ref))
        y      == ParseYear(text)
        author == FirstAuthor(raw_ref, y)
    IN  IF author.raises # "" THEN author
        ELSE Return([raw_reference    |-> raw_ref,
                     ref_title        |-> ParseTitle(text, y),
                     ref_first_author |->
                         Strip(WithoutNarrativeYear(
                             Strip(Without(author.value, YearAnnotations)))),
                     ref_year         |-> y.year,
                     doi              |-> DoiSearch(text)])

----------------------------------------------------------------------------
(* The similarity of titles. *)

\* fuzz.token_sort_ratio(standardize_title(a), standardize_title(b)) of the
\* rapidfuzz library: an external title is modelled by the score the library
\* gives it against the reference's title, so the ratio is that score.
title_similarity(ref_title, oa_title) == oa_title.score

----------------------------------------------------------------------------
(* Provider records.  A record is the JSON object a provider returned:     *)
(* which provider's schema it has, its title (present or not, and the      *)
(* score of its text against the reference's title), and the DOI, year     *)
(* and first author the normalizers read.  The lookup code reads only the  *)
(* title, so the other three fields are drawn when a normalizer reads      *)
(* them.                                                                   *)

NoRecord == [provider |-> "", title |-> [present |-> FALSE, score |-> 0], at |-> 0]

NoSource == "<None>"                    \* data_source = None

\* the titles a provider's record can have, W.scores being the scores the
\* library can give; the text of an absent title is empty and scores 0
Titles(W) == {[present |-> TRUE, score |-> n] : n \in W.scores}
                \cup {[present |-> FALSE, score |-> 0]}

\* `at` tells the elements of one list of candidates apart (two objects with
\* the same title are still two objects): the position in the list, 0 for a
\* record fetched by DOI
Records(W, provider) == [provider : {provider}, title : Titles(W), at : {0}]

\* lines 624-628 and 655-659: the text of a record's title, read with the
\* accessor of the provider the record came from
RecordText(record) == record.title

\* the "doi" of an OpenAlex record is a URL, the "DOI" of a Crossref record plain
RecordDoi(provider, d) ==
    IF d = None THEN None
    ELSE IF provider = "OpenAlex" THEN <<"https://doi.org/">> \o d
    ELSE d

\* extract_openalex_metadata, lines 371-436; rest = [doi, year, first_author]
\* are the record's fields and rest.unknown_score the library's score of the
\* text "Unknown".  A Crossref record has no "authorships", "publication_year"
\* or "doi" key, and its "title" is a list.
extract_openalex_metadata(record, rest) ==
    IF record.provider = "OpenAlex"
    THEN [oa_first_author |-> rest.first_author,
          oa_title        |-> [kind |-> "str", present |-> record.title.present,
                               score |-> record.title.score],
          oa_year         |-> rest.year,
          oa_doi          |-> IF ~Truthy(rest.doi) THEN None
                              ELSE IF DoiSearch(rest.doi) # None
                              THEN DoiSearch(rest.doi) ELSE rest.doi,
          data_source     |-> "OpenAlex"]
    ELSE [oa_first_author |-> Unknown,
          oa_title        |-> [kind |-> "list", present |-> record.title.present,
                               score |-> record.title.score],
          oa_year         |-> StrVal,
          oa_doi          |-> None,
          data_source     |-> "OpenAlex"]

\* extract_crossref_metadata, lines 466-521.  An OpenAlex record has no
\* "author", "published-*", "created" or "DOI" key, and title_list[0] of its
\* "title", a string, is the first character (scored rest.char_score).
extract_crossref_metadata(record, rest) ==
    IF record.provider = "Crossref"
    THEN [oa_first_author |-> rest.first_author,
          oa_title        |-> [kind |-> "str", present |-> TRUE,
                               score |-> IF record.title.present
                                         THEN record.title.score
                                         ELSE rest.unknown_score],
          oa_year         |-> rest.year,
          oa_doi          |-> rest.doi,
          data_source     |-> "Crossref"]
    ELSE [oa_first_author |-> Unknown,
          oa_title        |-> [kind |-> "str", present |-> TRUE,
                               score |-> IF record.title.present
                                         THEN rest.char_score
                                         ELSE rest.unknown_score],
          oa_year         |-> StrVal,
          oa_doi          |-> None,
          data_source     |-> "Crossref"]

----------------------------------------------------------------------------
(* compare_metadata, lines 524-564: the author and year entries of the     *)
(* diff (the title, journal, volume, issue and page entries compare two    *)
(* strings and are left out).  standardize_title calls title.lower(),      *)
(* which a list (the "title" of a Crossref record) does not have;          *)
(* ref_year - oa_year is an int minus whatever oa_year is.                 *)

compare_year(ref_year, oa_year) ==
    IF TruthyVal(ref_year) /\ TruthyVal(oa_year)
    THEN IF oa_year.t # "int" THEN Raise("TypeError")
         ELSE LET delta == Abs(ref_year.v - oa_year.v)
              IN  Return([oa_year_delta |-> IntVal(delta),
                          oa_year_diff  |-> IF delta = 0 THEN "False"
                                            ELSE IF delta <= 2 THEN "minor"
                                            ELSE "True"])
    ELSE Return([oa_year_delta |-> NoneVal, oa_year_diff |-> "True"])

compare_metadata(parsed_ref, meta) ==
    IF meta.oa_title.kind = "list" /\ meta.oa_title.present
    THEN Raise("AttributeError")
    ELSE
      LET year == compare_year(parsed_ref.ref_year, meta.oa_year)
      IN  IF year.raises # "" THEN year
          ELSE Return([oa_full_author_diff |->
                           extract_surname(parsed_ref.ref_first_author)
                             # extract_surname(meta.oa_first_author),
                       oa_year             |-> meta.oa_year,
                       oa_year_delta       |-> year.value.oa_year_delta,
                       oa_year_diff        |-> year.value.oa_year_diff])

----------------------------------------------------------------------------
(* verify_status, lines 567-594. *)

title_points(title_score) ==
    IF title_score >= 90 THEN 2 ELSE IF title_score >= 80 THEN 1 ELSE 0

author_points(ref_surname, oa_surname) ==
    IF ref_surname # <<>> /\ oa_surname # <<>> /\ ref_surname = oa_surname
    THEN 1 ELSE 0

classify(score) ==
    IF score >= 4 THEN [status |-> "verified", confidence |-> "high"]
    ELSE IF score >= 2 THEN [status |-> "ambiguous", confidence |-> "medium"]
    ELSE [status |-> "unverified", confidence |-> "low"]

\* lines 584-587: the point for the year, or the exception of the subtraction
year_point(ref_year, oa_year) ==
    IF ref_year.t # "none" /\ oa_year.t # "none"
    THEN IF ref_year.t # "int" \/ oa_year.t # "int" THEN Raise("TypeError")
         ELSE Return(IF Abs(ref_year.v - oa_year.v) <= 2 THEN 1 ELSE 0)
    ELSE Return(0)

verify_status(parsed_ref, meta) ==
    LET base == title_points(title_similarity(parsed_ref.ref_title, meta.oa_title))
                + author_points(extract_surname(parsed_ref.ref_first_author),
                                extract_surname(meta.oa_first_author))
        year == year_point(parsed_ref.ref_year, meta.oa_year)
    IN  IF meta.oa_title.kind = "list" /\ meta.oa_title.present
        THEN Raise("AttributeError")
        ELSE IF year.raises # "" THEN year
        ELSE Return(classify(base + year.value))

----------------------------------------------------------------------------
(* The DOI decision of process_references, lines 682-714 and 738-744. *)

\* variants of doi_decision: row 4 without its test of oa_doi; the title
\* mismatch row skipped when the DOIs agree; the normalized DOI filled in;
\* the original DOI kept on a title mismatch
doi_decision_unguarded(original_doi, oa_doi, lookup_success, similarity, by_title) ==
    LET original_doi_norm == normalize_doi(original_doi)
        oa_doi_norm       == normalize_doi(oa_doi)
    IN  IF Truthy(original_doi)
        THEN IF lookup_success /\ similarity < TITLE_MISMATCH_THRESHOLD
             THEN [filled_doi |-> None, doi_fill_status |-> "doi_title_mismatch"]
             ELSE IF /\ Truthy(oa_doi_norm) /\ original_doi_norm = oa_doi_norm
                     /\ similarity >= TITLE_MISMATCH_THRESHOLD
             THEN [filled_doi |-> original_doi, doi_fill_status |-> "original_correct"]
             ELSE IF by_title /\ Truthy(oa_doi)
             THEN [filled_doi |-> oa_doi,
                   doi_fill_status |-> "title_matched_doi_corrected"]
             ELSE IF original_doi_norm # oa_doi_norm
             THEN [filled_doi |-> oa_doi,
                   doi_fill_status |-> "original_wrong_corrected"]
             ELSE [filled_doi |-> original_doi,
                   doi_fill_status |-> "original_unverified"]
        ELSE IF Truthy(oa_doi)
        THEN [filled_doi |-> oa_doi, doi_fill_status |-> "filled_from_database"]
        ELSE [filled_doi |-> None, doi_fill_status |-> "missing"]

doi_decision_equal_first(original_doi, oa_doi, lookup_success, similarity, by_title) ==
    LET original_doi_norm == normalize_doi(original_doi)
        oa_doi_norm       == normalize_doi(oa_doi)
    IN  IF Truthy(original_doi)
        THEN IF /\ lookup_success /\ similarity < TITLE_MISMATCH_THRESHOLD
                /\ original_doi_norm # oa_doi_norm
             THEN [filled_doi |-> None, doi_fill_status |-> "doi_title_mismatch"]
             ELSE IF /\ Truthy(oa_doi_norm) /\ original_doi_norm = oa_doi_norm
                     /\ similarity >= TITLE_MISMATCH_THRESHOLD
             THEN [filled_doi |-> original_doi, doi_fill_status |-> "original_correct"]
             ELSE IF by_title /\ Truthy(oa_doi)
             THEN [filled_doi |-> oa_doi,
                   doi_fill_status |-> "title_matched_doi_corrected"]
             ELSE IF Truthy(oa_doi) /\ original_doi_norm # oa_doi_norm
             THEN [filled_doi |-> oa_doi,
                   doi_fill_status |-> "original_wrong_corrected"]
             ELSE [filled_doi |-> original_doi,
                   doi_fill_status |-> "original_unverified"]
        ELSE IF Truthy(oa_doi)
        THEN [filled_doi |-> oa_doi, doi_fill_status |-> "filled_from_database"]
        ELSE [filled_doi |-> None, doi_fill_status |-> "missing"]

doi_decision_fills_normalized(original_doi, oa_doi, lookup_success, similarity, by_title) ==
    LET original_doi_norm == normalize_doi(original_doi)
        oa_doi_norm       == normalize_doi(oa_doi)
    IN  IF Truthy(original_doi)
        THEN IF lookup_success /\ similarity < TITLE_MISMATCH_THRESHOLD
             THEN [filled_doi |-> None, doi_fill_status |-> "doi_title_mismatch"]
             ELSE IF /\ Truthy(oa_doi_norm) /\ original_doi_norm = oa_doi_norm
                     /\ similarity >= TITLE_MISMATCH_THRESHOLD
             THEN [filled_doi |-> original_doi_norm,
                   doi_fill_status |-> "original_correct"]
             ELSE IF by_title /\ Truthy(oa_doi)
             THEN [filled_doi |-> oa_doi,
                   doi_fill_status |-> "title_matched_doi_corrected"]
             ELSE IF Truthy(oa_doi) /\ original_doi_norm # oa_doi_norm
             THEN [filled_doi |-> oa_doi,
                   doi_fill_status |-> "original_wrong_corrected"]
             ELSE [filled_doi |-> original_doi,
                   doi_fill_status |-> "original_unverified"]
        ELSE IF Truthy(oa_doi)
        THEN [filled_doi |-> oa_doi, doi_fill_status |-> "filled_from_database"]
        ELSE [filled_doi |-> None, doi_fill_status |-> "missing"]

doi_decision_mismatch_keeps(original_doi, oa_doi, lookup_success, similarity, by_title) ==
    LET original_doi_norm == normalize_doi(original_doi)
        oa_doi_norm       == normalize_doi(oa_doi)
    IN  IF Truthy(original_doi)
        THEN IF lookup_success /\ similarity < TITLE_MISMATCH_THRESHOLD
             THEN [filled_doi |-> original_doi,
                   doi_fill_status |-> "doi_title_mismatch"]
             ELSE IF /\ Truthy(oa_doi_norm) /\ original_doi_norm = oa_doi_norm
                     /\ similarity >= TITLE_MISMATCH_THRESHOLD
             THEN [filled_doi |-> original_doi, doi_fill_status |-> "original_correct"]
             ELSE IF by_title /\ Truthy(oa_doi)
             THEN [filled_doi |-> oa_doi,
                   doi_fill_status |-> "title_matched_doi_corrected"]
             ELSE IF Truthy(oa_doi) /\ original_doi_norm # oa_doi_norm
             THEN [filled_doi |-> oa_doi,
                   doi_fill_status |-> "original_wrong_corrected"]
             ELSE [filled_doi |-> original_doi,
                   doi_fill_status |-> "original_unverified"]
        ELSE IF Truthy(oa_doi)
        THEN [filled_doi |-> oa_doi, doi_fill_status |-> "filled_from_database"]
        ELSE [filled_doi |-> None, doi_fill_status |-> "missing"]

doi_decision(original_doi, oa_doi, lookup_success, similarity, by_title) ==
    LET original_doi_norm == normalize_doi(original_doi)
        oa_doi_norm       == normalize_doi(oa_doi)
    IN  IF Truthy(original_doi)
        THEN IF lookup_success /\ similarity < TITLE_MISMATCH_THRESHOLD
             THEN [filled_doi |-> None, doi_fill_status |-> "doi_title_mismatch"]
             ELSE IF /\ Truthy(oa_doi_norm) /\ original_doi_norm = oa_doi_norm
                     /\ similarity >= TITLE_MISMATCH_THRESHOLD
             THEN [filled_doi |-> original_doi, doi_fill_status |-> "original_correct"]
             ELSE IF by_title /\ Truthy(oa_doi)
             THEN [filled_doi |-> oa_doi,
                   doi_fill_status |-> "title_matched_doi_corrected"]
             ELSE IF Truthy(oa_doi) /\ original_doi_norm # oa_doi_norm
             THEN [filled_doi |-> oa_doi,
                   doi_fill_status |-> "original_wrong_corrected"]
             ELSE [filled_doi |-> original_doi,
                   doi_fill_status |-> "original_unverified"]
        ELSE IF Truthy(oa_doi)
        THEN [filled_doi |-> oa_doi, doi_fill_status |-> "filled_from_database"]
        ELSE [filled_doi |-> None, doi_fill_status |-> "missing"]

\* variant of no_record_decision: the original DOI is kept
no_record_decision_keeps_doi(original_doi) ==
    IF Truthy(original_doi)
    THEN [filled_doi |-> original_doi, doi_fill_status |-> "unverified"]
    ELSE [filled_doi |-> None, doi_fill_status |-> "missing"]

no_record_decision(original_doi) ==
    IF Truthy(original_doi)
    THEN [filled_doi |-> None, doi_fill_status |-> "unverified"]
    ELSE [filled_doi |-> None, doi_fill_status |-> "missing"]

\* variant of BestFrom: a later candidate wins a tie
RECURSIVE BestFrom_last_on_ties(_, _, _, _, _)
BestFrom_last_on_ties(ref_title, cands, i, best_score, best_index) ==
    IF i > Len(cands) THEN [best_score |-> best_score, best_index |-> best_index]
    ELSE LET score == title_similarity(ref_title, RecordText(cands[i]))
         IN  IF score >= best_score /\ score > 0
             THEN BestFrom_last_on_ties(ref_title, cands, i + 1, score, i)
             ELSE BestFrom_last_on_ties(ref_title, cands, i + 1, best_score,
                                        best_index)

\* lines 651-667: the loop over the candidates from index i on, with
\* best_score and the index of best_record (0 for None) so far
RECURSIVE BestFrom(_, _, _, _, _)
BestFrom(ref_title, cands, i, best_score, best_index) ==
    IF i > Len(cands) THEN [best_score |-> best_score, best_index |-> best_index]
    ELSE LET score == title_similarity(ref_title, RecordText(cands[i]))
         IN  IF score > best_score
             THEN BestFrom(ref_title, cands, i + 1, score, i)
             ELSE BestFrom(ref_title, cands, i + 1, best_score, best_index)

\* variant of accepted: the best candidate is taken whatever its score
accepted_any(best) == best.best_index # 0

\* line 669: the best candidate replaces the record
accepted(best) == best.best_score >= TITLE_THRESHOLD /\ best.best_index # 0

\* variant of crossref_by_doi_follows: Crossref is asked whenever there is a DOI
crossref_by_doi_always(record, doi) == Truthy(doi)

\* lines 611-613: Crossref is asked for the DOI
crossref_by_doi_follows(record, doi) == record = NoRecord /\ Truthy(doi)

\* variant of title_search_follows: the acceptance threshold in place of the
\* mismatch threshold
title_search_below_acceptance(record, score, ref_title) ==
    /\ (record = NoRecord \/ score < TITLE_THRESHOLD)
    /\ ref_title # Unknown

\* lines 638-639: the title search is entered
title_search_follows(record, score, ref_title) ==
    /\ (record = NoRecord \/ score < TITLE_MISMATCH_THRESHOLD)
    /\ ref_title # Unknown

\* lines 746-754: the verdict record
Result(p, meta, diff, decision, verdict) ==
    [raw_reference    |-> p.raw_reference,
     ref_title        |-> p.ref_title,
     ref_first_author |-> p.ref_first_author,
     ref_year         |-> p.ref_year,
     doi              |-> p.doi,
     oa_first_author  |-> meta.oa_first_author,
     oa_title         |-> meta.oa_title,
     oa_year          |-> meta.oa_year,
     oa_doi           |-> meta.oa_doi,
     data_source      |-> meta.data_source,
     oa_year_diff     |-> diff.oa_year_diff,
     oa_year_delta    |-> diff.oa_year_delta,
     filled_doi       |-> decision.filled_doi,
     doi_fill_status  |-> decision.doi_fill_status,
     status           |-> verdict.status,
     confidence       |-> verdict.confidence]

\* lines 718-736: the placeholders of a reference with no external record
NoMeta ==
    [oa_first_author |-> Unknown,
     oa_title        |-> [kind |-> "str", present |-> TRUE, score |-> 0],
     oa_year         |-> StrVal,
     oa_doi          |-> Unknown,
     data_source     |-> "None"]

NoDiff == [oa_year_diff |-> "True", oa_year_delta |-> NoneVal]

----------------------------------------------------------------------------
(* main, lines 801-815, and process_references, lines 597-757.  W gives    *)
(* the values the outside world can supply: W.scores (title scores of the  *)
(* library), W.dois, W.years and W.authors (fields of provider records).   *)

IsBlank(line) == Strip(line) = <<>>

\* variant of NonEmptyLines: the lines come out last first
RECURSIVE NonEmptyLines_reversed(_)
NonEmptyLines_reversed(ls) ==
    IF ls = <<>> THEN <<>>
    ELSE IF IsBlank(Head(ls)) THEN NonEmptyLines_reversed(Tail(ls))
    ELSE NonEmptyLines_reversed(Tail(ls)) \o <<Strip(Head(ls))>>

\* line 806
RECURSIVE NonEmptyLines(_)
NonEmptyLines(ls) ==
    IF ls = <<>> THEN <<>>
    ELSE IF IsBlank(Head(ls)) THEN NonEmptyLines(Tail(ls))
    ELSE <<Strip(Head(ls))>> \o NonEmptyLines(Tail(ls))

NoLocals ==
    /\ oa_record_from_doi' = NoRecord
    /\ doi_lookup_success' = FALSE
    /\ data_source' = NoSource
    /\ title_similarity_score' = 0
    /\ oa_record' = NoRecord
    /\ matched_by_title' = FALSE
    /\ candidates' = <<>>
    /\ oa_meta' = None
    /\ final_title_similarity' = 0
    /\ calls' = <<>>

\* lines 801-815: an all-blank text is refused, else the non-empty lines
\* are handed to process_references
Main ==
    /\ pc = "main"
    /\ UNCHANGED <<calls, last_event>>
    /\ IF \A i \in 1..Len(lines) : IsBlank(lines[i])
       THEN pc' = "refused" /\ UNCHANGED <<references, idx>>
       ELSE /\ references' = NonEmptyLines(lines)
            /\ idx' = 1
            /\ pc' = "for"
    /\ UNCHANGED <<lines, results, parsed, oa_record_from_doi, doi_lookup_success,
                   data_source, title_similarity_score, oa_record,
                   matched_by_title, candidates, oa_meta,
                   final_title_similarity, err, arg, ret>>

\* lines 601-605 and 757
ForEach ==
    /\ pc = "for"
    /\ UNCHANGED last_event
    /\ IF idx > Len(references)
       THEN pc' = "returned" /\ UNCHANGED <<parsed, err>>
       ELSE LET p == parse_reference(references[idx])
            IN  IF p.raises # ""
                THEN pc' = "raised" /\ err' = p.raises /\ UNCHANGED parsed
                ELSE pc' = "query_openalex_by_doi" /\ parsed' = p.value
                     /\ UNCHANGED err
    /\ NoLocals
    /\ UNCHANGED <<lines, references, idx, results, arg, ret>>

\* query_openalex_by_doi, lines 340-349, and lines 607-612: no request
\* without a DOI; a request yields a record, or None on a status other
\* than 200, a timeout or a transport error
QueryOpenalexByDoi(W) ==
    /\ pc = "query_openalex_by_doi"
    /\ \E r \in IF Truthy(parsed.doi) THEN Records(W, "OpenAlex") \cup {NoRecord}
                ELSE {NoRecord} :
          /\ oa_record_from_doi' = r
          /\ doi_lookup_success' = (r # NoRecord)
          /\ data_source' = IF r # NoRecord THEN "OpenAlex" ELSE NoSource
          /\ pc' = IF crossref_by_doi_follows(r, parsed.doi)
                   THEN "query_crossref_by_doi" ELSE "sleep_doi"
    /\ IF Truthy(parsed.doi)
       THEN /\ calls' = Append(calls, [fn |-> "query_openalex_by_doi",
                                       found |-> oa_record_from_doi' # NoRecord])
            /\ last_event' = "request"
       ELSE UNCHANGED <<calls, last_event>>
    /\ UNCHANGED <<lines, references, idx, results, parsed,
                   title_similarity_score, oa_record, matched_by_title,
                   candidates, oa_meta, final_title_similarity, err, arg, ret>>

\* query_crossref_by_doi, lines 439-450, and lines 613-618
QueryCrossrefByDoi(W) ==
    /\ pc = "query_crossref_by_doi"
    /\ \E r \in Records(W, "Crossref") \cup {NoRecord} :
          IF r # NoRecord
          THEN /\ oa_record_from_doi' = r
               /\ doi_lookup_success' = TRUE
               /\ data_source' = "Crossref"
          ELSE UNCHANGED <<oa_record_from_doi, doi_lookup_success, data_source>>
    /\ calls' = Append(calls, [fn |-> "query_crossref_by_doi",
                               found |-> oa_record_from_doi' # NoRecord])
    /\ last_event' = "request"
    /\ pc' = "sleep_doi"
    /\ UNCHANGED <<lines, references, idx, results, parsed,
                   title_similarity_score, oa_record, matched_by_title,
                   candidates, oa_meta, final_title_similarity, err, arg, ret>>

\* lines 620-639: the pacing delay, the similarity of the DOI-resolved
\* title, and whether a title search follows
SleepAfterDoi ==
    /\ pc = "sleep_doi"
    /\ last_event' = "sleep" /\ UNCHANGED calls
    /\ LET score == IF oa_record_from_doi # NoRecord
                    THEN title_similarity(parsed.ref_title,
                                          RecordText(oa_record_from_doi))
                    ELSE 0
       IN  /\ title_similarity_score' = score
           /\ oa_record' = oa_record_from_doi
           /\ matched_by_title' = FALSE
           /\ pc' = IF title_search_follows(oa_record_from_doi, score,
                                            parsed.ref_title)
                    THEN "query_openalex_by_title" ELSE "verdict"
    /\ UNCHANGED <<lines, references, idx, results, parsed, oa_record_from_doi,
                   doi_lookup_success, data_source, candidates, oa_meta,
                   final_title_similarity, err, arg, ret>>

\* the candidate lists a title search of a provider can return; none
\* without a request (no title, lines 353 and 454) and on a failed request
Candidates(W, provider) ==
    IF ~Truthy(parsed.ref_title) \/ parsed.ref_title = Unknown THEN {<<>>}
    ELSE {[i \in 1..Len(c) |-> [c[i] EXCEPT !.at = i]] :
              c \in SeqsUpTo(Records(W, provider), MaxCands)}

\* query_openalex_by_title, lines 352-368, at line 640
QueryOpenalexByTitle(W) ==
    /\ pc = "query_openalex_by_title"
    /\ candidates' \in Candidates(W, "OpenAlex")
    /\ IF Truthy(parsed.ref_title) /\ parsed.ref_title # Unknown
       THEN /\ calls' = Append(calls, [fn |-> "query_openalex_by_title",
                                       found |-> candidates' # <<>>])
            /\ last_event' = "request"
       ELSE UNCHANGED <<calls, last_event>>
    /\ pc' = "sleep_openalex_title"
    /\ UNCHANGED <<lines, references, idx, results, parsed, oa_record_from_doi,
                   doi_lookup_success, data_source, title_similarity_score,
                   oa_record, matched_by_title, oa_meta,
                   final_title_similarity, err, arg, ret>>

\* lines 641-648
SleepAfterOpenalexTitle ==
    /\ pc = "sleep_openalex_title"
    /\ last_event' = "sleep" /\ UNCHANGED calls
    /\ IF candidates = <<>>
       THEN pc' = "query_crossref_by_title" /\ UNCHANGED data_source
       ELSE pc' = "select" /\ data_source' = "OpenAlex"
    /\ UNCHANGED <<lines, references, idx, results, parsed, oa_record_from_doi,
                   doi_lookup_success, title_similarity_score, oa_record,
                   matched_by_title, candidates, oa_meta,
                   final_title_similarity, err, arg, ret>>

\* query_crossref_by_title, lines 453-463, at lines 644-645
QueryCrossrefByTitle(W) ==
    /\ pc = "query_crossref_by_title"
    /\ candidates' \in Candidates(W, "Crossref")
    /\ IF Truthy(parsed.ref_title) /\ parsed.ref_title # Unknown
       THEN /\ calls' = Append(calls, [fn |-> "query_crossref_by_title",
                                       found |-> candidates' # <<>>])
            /\ last_event' = "request"
       ELSE UNCHANGED <<calls, last_event>>
    /\ data_source' = IF candidates' # <<>> THEN "Crossref" ELSE NoSource
    /\ pc' = "sleep_crossref_title"
    /\ UNCHANGED <<lines, references, idx, results, parsed, oa_record_from_doi,
                   doi_lookup_success, title_similarity_score, oa_record,
                   matched_by_title, oa_meta, final_title_similarity, err,
                   arg, ret>>

\* line 646
SleepAfterCrossrefTitle ==
    /\ pc = "sleep_crossref_title"
    /\ last_event' = "sleep"
    /\ pc' = "select"
    /\ UNCHANGED <<lines, references, idx, results, parsed, oa_record_from_doi,
                   doi_lookup_success, data_source, title_similarity_score,
                   oa_record, matched_by_title, candidates, oa_meta,
                   final_title_similarity, err, calls, arg, ret>>

\* lines 650-671
SelectBest ==
    /\ pc = "select"
    /\ UNCHANGED <<calls, last_event>>
    /\ LET best == BestFrom(parsed.ref_title, candidates, 1, 0, 0)
       IN  IF candidates # <<>> /\ accepted(best)
           THEN oa_record' = candidates[best.best_index] /\ matched_by_title' = TRUE
           ELSE UNCHANGED <<oa_record, matched_by_title>>
    /\ pc' = "verdict"
    /\ UNCHANGED <<lines, references, idx, results, parsed, oa_record_from_doi,
                   doi_lookup_success, data_source, title_similarity_score,
                   candidates, oa_meta, final_title_similarity, err, arg, ret>>

\* the fields of `record` that a normalizer reads, and the library's scores
\* of the texts "Unknown" and of one character against the reference's title
Rests(W, record, source) ==
    LET own   == record.provider = source
        other == IF parsed.ref_title = Unknown THEN {100} ELSE W.scores
    IN  [doi : IF own THEN {RecordDoi(record.provider, d) : d \in W.dois}
               ELSE {None},
         year : IF own THEN W.years ELSE {StrVal},
         first_author : IF own THEN W.authors ELSE {Unknown},
         unknown_score : IF source # "OpenAlex" /\ ~record.title.present
                         THEN other ELSE {0},
         char_score : IF source # "OpenAlex" /\ ~own /\ record.title.present
                      THEN W.scores ELSE {0}]

\* lines 673-755: normalisation, comparison, scoring and the DOI decision
\* of a reference with an external record; an exception leaves the function
VerdictWithRecord(W) ==
    /\ pc = "verdict"
    /\ UNCHANGED <<calls, last_event>>
    /\ oa_record # NoRecord
    /\ \E rest \in Rests(W, oa_record, data_source) :
         LET meta == IF data_source = "OpenAlex"
                     THEN extract_openalex_metadata(oa_record, rest)
                     ELSE extract_crossref_metadata(oa_record, rest)
             diff == compare_metadata(parsed, meta)
             verdict == verify_status(parsed, meta)
             similarity == title_similarity(parsed.ref_title, meta.oa_title)
         IN  /\ oa_meta' = meta
             /\ IF diff.raises # "" \/ verdict.raises # ""
                THEN /\ err' = IF diff.raises # "" THEN diff.raises ELSE verdict.raises
                     /\ pc' = "raised"
                     /\ UNCHANGED <<results, idx, final_title_similarity>>
                ELSE /\ final_title_similarity' = similarity
                     /\ results' = Append(results,
                            Result(parsed, meta, diff.value,
                                   doi_decision(parsed.doi, meta.oa_doi,
                                                doi_lookup_success, similarity,
                                                matched_by_title),
                                   verdict.value))
                     /\ idx' = idx + 1
                     /\ pc' = "for"
                     /\ UNCHANGED err
    /\ UNCHANGED <<lines, references, parsed, oa_record_from_doi,
                   doi_lookup_success, data_source, title_similarity_score,
                   oa_record, matched_by_title, candidates, arg, ret>>

\* lines 717-755: a reference with no external record
VerdictWithoutRecord ==
    /\ pc = "verdict"
    /\ UNCHANGED <<calls, last_event>>
    /\ oa_record = NoRecord
    /\ oa_meta' = NoMeta
    /\ results' = Append(results,
           Result(parsed, NoMeta, NoDiff, no_record_decision(parsed.doi),
                  [status |-> "unverified", confidence |-> "unverified"]))
    /\ idx' = idx + 1
    /\ pc' = "for"
    /\ UNCHANGED <<lines, references, parsed, oa_record_from_doi,
                   doi_lookup_success, data_source, title_similarity_score,
                   oa_record, matched_by_title, candidates,
                   final_title_similarity, err, arg, ret>>

NextIn(W) ==
    \/ Main
    \/ ForEach
    \/ QueryOpenalexByDoi(W)
    \/ QueryCrossrefByDoi(W)
    \/ SleepAfterDoi
    \/ QueryOpenalexByTitle(W)
    \/ SleepAfterOpenalexTitle
    \/ QueryCrossrefByTitle(W)
    \/ SleepAfterCrossrefTitle
    \/ SelectBest
    \/ VerdictWithRecord(W)
    \/ VerdictWithoutRecord

----------------------------------------------------------------------------
(* The batch runs: the text area holds up to MaxLines lines, each blank    *)
(* or one of four citations.                                               *)

LineDoiTitle ==     \* Smith, J. (1995). Deep learning. Nature. 10.1234/ABC.
    <<"Smith", ",", " ", "J", ".", " ", "(1995)", ".", " ", "Deep", " ",
      "learning", ".", " ", "Nature", ".", " ", "10.1234/", "ABC", ".">>
LineTitle ==        \* Smith (1995). Deep learning. Nature
    <<"Smith", " ", "(1995)", ".", " ", "Deep", " ", "learning", ".", " ",
      "Nature">>
LineQuoted ==       \* Smith, J. "Deep learning". Nature. 10.1234/ABC
    <<"Smith", ",", " ", "J", ".", " ", "\"", "Deep", " ", "learning", "\"",
      ".", " ", "Nature", ".", " ", "10.1234/", "ABC">>
LineDoi ==          \* Smith, 10.1234/ABC
    <<"Smith", ",", " ", "10.1234/", "ABC">>
LineBare ==         \* "Smith ", with a trailing space
    <<"Smith", " ">>

TextLines == {<<>>, <<" ">>, LineDoiTitle, LineTitle, LineQuoted, LineDoi,
              LineBare}

PureIdle == arg = <<>> /\ ret = <<>>

LoopStart ==
    /\ references = <<>> /\ idx = 0 /\ results = <<>>
    /\ parsed = None /\ oa_record_from_doi = NoRecord /\ doi_lookup_success = FALSE
    /\ data_source = NoSource /\ title_similarity_score = 0 /\ oa_record = NoRecord
    /\ matched_by_title = FALSE /\ candidates = <<>> /\ oa_meta = None
    /\ final_title_similarity = 0 /\ err = ""
    /\ calls = <<>> /\ last_event = ""
    /\ pc = "main"
    /\ PureIdle

(* Spec: one line of text, and every outcome of the lookups on it: scores  *)
(* on both sides of the two thresholds, an external DOI that is absent,    *)
(* the reference's own or another, a year that is null, "Unknown", the     *)
(* reference's or three years off.                                         *)

World ==
    [scores  |-> {69, 70, 84, 85, 90},
     dois    |-> {None, <<"https://doi.org/", "10.1234/", "abc">>,
                  <<"10.1234/", "abc">>, <<"10.1234/", "xyz">>},
     years   |-> {NoneVal, StrVal, IntVal(1995), IntVal(1998)},
     authors |-> {<<"J", ".", " ", "Smith">>, Unknown}]

Init ==
    /\ lines \in {<<l>> : l \in TextLines}
    /\ LoopStart

Next == NextIn(World)

Spec == Init /\ [][Next]_vars

(* SpecBatch: up to MaxLines lines of text, with one score on each side of *)
(* the acceptance threshold and records with or without a DOI.             *)

BatchWorld ==
    [scores  |-> {69, 90},
     dois    |-> {None, <<"10.1234/", "abc">>},
     years   |-> {StrVal, IntVal(1995)},
     authors |-> {<<"J", ".", " ", "Smith">>}]

BatchLines == {<<>>, LineTitle, LineDoi, LineBare}

InitBatch ==
    /\ lines \in SeqsUpTo(BatchLines, MaxLines)
    /\ LoopStart

NextBatch == NextIn(BatchWorld)

SpecBatch == InitBatch /\ [][NextBatch]_vars

----------------------------------------------------------------------------
(* Runs of one pure function: the argument is drawn in the initial state,  *)
(* the function is applied, and (normalize_doi) applied again to its own   *)
(* result.                                                                 *)

LoopIdle ==
    /\ lines = <<>> /\ references = <<>> /\ idx = 0 /\ results = <<>>
    /\ parsed = None /\ oa_record_from_doi = NoRecord /\ doi_lookup_success = FALSE
    /\ data_source = NoSource /\ title_similarity_score = 0 /\ oa_record = NoRecord
    /\ matched_by_title = FALSE /\ candidates = <<>> /\ oa_meta = None
    /\ final_title_similarity = 0 /\ err = ""
    /\ calls = <<>> /\ last_event = ""

DoiAtoms == {"https://doi.org/", "doi:", "DOI:", "10.1234/", "abc", "ABC", ".", " "}

DoiInputs == SeqsUpTo(DoiAtoms, MaxDoiLen)

InitNormalizeDoi ==
    /\ LoopIdle
    /\ pc = "normalize_doi"
    /\ arg \in DoiInputs
    /\ ret = <<>>

CallNormalizeDoi ==
    /\ pc = "normalize_doi"
    /\ ret' = <<normalize_doi(arg)>>
    /\ pc' = "normalize_doi_again"
    /\ UNCHANGED <<arg, loopVars>>

CallNormalizeDoiAgain ==
    /\ pc = "normalize_doi_again"
    /\ ret' = Append(ret, normalize_doi(ret[1]))
    /\ pc' = "returned"
    /\ UNCHANGED <<arg, loopVars>>

NextNormalizeDoi == CallNormalizeDoi \/ CallNormalizeDoiAgain

SpecNormalizeDoi == InitNormalizeDoi /\ [][NextNormalizeDoi]_vars

(* compare_metadata and verify_status on one pair of a parsed reference    *)
(* and an external record's metadata.                                      *)

RefAuthors == {<<"Smith">>, <<"Smith", " ", "J", ".">>, <<>>}
OaAuthors  == {<<"J", ".", " ", "Smith">>, <<"Smith", ",", " ", "J", ".">>,
               <<"Jones">>, Unknown}
RefYears   == {NoneVal, IntVal(0), IntVal(1995)}
OaYears    == {NoneVal, StrVal}
                \cup {IntVal(y) : y \in (1995 - MaxYearDelta)..(1995 + MaxYearDelta)}

StrTitle(score) == [kind |-> "str", present |-> TRUE, score |-> score]

ScoringInputs ==
    [parsed_ref : [ref_title : {<<"Deep", " ", "learning">>},
                   ref_first_author : RefAuthors,
                   ref_year : RefYears],
     meta : [oa_title : {StrTitle(n) : n \in 0..100},
             oa_first_author : OaAuthors,
             oa_year : OaYears]]

InitScoring ==
    /\ LoopIdle
    /\ pc = "scoring"
    /\ arg \in ScoringInputs
    /\ ret = <<>>

CallCompareMetadata ==
    /\ pc = "scoring"
    /\ ret' = <<compare_metadata(arg.parsed_ref, arg.meta)>>
    /\ pc' = "compare_metadata_returned"
    /\ UNCHANGED <<arg, loopVars>>

CallVerifyStatus ==
    /\ pc = "scoring"
    /\ ret' = <<verify_status(arg.parsed_ref, arg.meta)>>
    /\ pc' = "verify_status_returned"
    /\ UNCHANGED <<arg, loopVars>>

NextScoring == CallCompareMetadata \/ CallVerifyStatus

SpecScoring == InitScoring /\ [][NextScoring]_vars

(* parse_reference on one line of at most MaxLineLen atoms. *)

LineAtoms == {"Smith", " ", ",", ".", "(1995)", "1995"}

InitParse ==
    /\ LoopIdle
    /\ pc = "parse_reference"
    /\ arg \in SeqsUpTo(LineAtoms, MaxLineLen)
    /\ ret = <<>>

CallParseReference ==
    /\ pc = "parse_reference"
    /\ ret' = <<parse_reference(arg)>>
    /\ pc' = "parse_reference_returned"
    /\ UNCHANGED <<arg, loopVars>>

NextParse == CallParseReference

SpecParse == InitParse /\ [][NextParse]_vars

(* The year of a reference against the year of a record, in              *)
(* compare_metadata and in verify_status.                                  *)

YearPairs ==
    [ref_year : {NoneVal, IntVal(0)}
                    \cup {IntVal(y) : y \in 1995..(1995 + MaxYearDelta)},
     oa_year  : {NoneVal, StrVal}
                    \cup {IntVal(y) : y \in 0..MaxYearDelta}
                    \cup {IntVal(y) : y \in (1995 - MaxYearDelta)..(1995 + MaxYearDelta)}]

InitYear ==
    /\ LoopIdle
    /\ pc = "year"
    /\ arg \in YearPairs
    /\ ret = <<>>

CallCompareYear ==
    /\ pc = "year"
    /\ ret' = <<compare_year(arg.ref_year, arg.oa_year)>>
    /\ pc' = "compare_year_returned"
    /\ UNCHANGED <<arg, loopVars>>

CallYearPoint ==
    /\ pc = "compare_year_returned"
    /\ ret' = Append(ret, year_point(arg.ref_year, arg.oa_year))
    /\ pc' = "year_returned"
    /\ UNCHANGED <<arg, loopVars>>

NextYear == CallCompareYear \/ CallYearPoint

SpecYear == InitYear /\ [][NextYear]_vars

----------------------------------------------------------------------------
(* normalize_page_range, on the page strings of the parser and of the      *)
(* provider records.  A page string is a sequence of atoms: a run of       *)
(* digits, one hyphen, one other dash, or one blank.                       *)

MaxPageLen == 3

Hyphen == "-"

\* line 70: the en dash, the em dash and the minus sign, one atom each
OtherDashes == {"<en dash>", "<em dash>", "<minus sign>"}

PageAtoms == {"273", "297", Hyphen, "<en dash>", " "}

\* line 70: the three replace calls
ReplaceDashes(s) ==
    [i \in 1..Len(s) |-> IF s[i] \in OtherDashes THEN Hyphen ELSE s[i]]

\* the blank at i belongs to a run of blanks next to a hyphen
BesideHyphen(s, i) ==
    /\ s[i] \in Whitespace
    /\ \/ \E j \in 1..(i - 1) :
              s[j] = Hyphen /\ \A k \in (j + 1)..i : s[k] \in Whitespace
       \/ \E j \in (i + 1)..Len(s) :
              s[j] = Hyphen /\ \A k \in i..(j - 1) : s[k] \in Whitespace

\* line 71: re.sub(r'\s*-\s*', '-', normalized)
RECURSIVE CollapseAroundHyphens(_, _)
CollapseAroundHyphens(s, i) ==
    IF i > Len(s) THEN <<>>
    ELSE IF BesideHyphen(s, i) THEN CollapseAroundHyphens(s, i + 1)
    ELSE <<s[i]>> \o CollapseAroundHyphens(s, i + 1)

\* lines 66-72
normalize_page_range(page_range) ==
    IF ~Truthy(page_range) \/ page_range = <<Hyphen>> THEN <<Hyphen>>
    ELSE Strip(CollapseAroundHyphens(ReplaceDashes(page_range), 1))

\* lines 391-396: the page range of an OpenAlex biblio
openalex_page_range(first_page, last_page) ==
    IF Truthy(first_page) /\ Truthy(last_page)
    THEN IF first_page # last_page
         THEN first_page \o <<Hyphen>> \o last_page
         ELSE first_page
    ELSE IF Truthy(first_page) THEN first_page ELSE <<Hyphen>>

BiblioPages == {None, <<>>, <<"273">>, <<"297">>}

InitPage ==
    /\ LoopIdle
    /\ ret = <<>>
    /\ \/ pc = "page" /\ arg \in SeqsUpTo(PageAtoms, MaxPageLen) \cup {None}
       \/ pc = "biblio"
          /\ arg \in [first_page : BiblioPages, last_page : BiblioPages]

\* lines 391-396
OpenalexPageRange ==
    /\ pc = "biblio"
    /\ arg' = openalex_page_range(arg.first_page, arg.last_page)
    /\ pc' = "page"
    /\ UNCHANGED <<ret, loopVars>>

\* lines 275, 294, 301, 398, 492: the call of normalize_page_range
CallNormalizePageRange ==
    /\ pc = "page"
    /\ ret' = normalize_page_range(arg)
    /\ pc' = "normalize_page_range_returned"
    /\ UNCHANGED <<arg, loopVars>>

NextPage == OpenalexPageRange \/ CallNormalizePageRange

SpecPage == InitPage /\ [][NextPage]_vars

----------------------------------------------------------------------------
(* parse_reference, lines 262-301: volume, issue and pages.  The text is  *)
(* a sequence of atoms: the markers, numbers (runs of digits), dashes,     *)
(* blanks and the punctuation of the five patterns.                        *)

MaxFrags == 3

\* the atoms matched by 'vol\.', 'no\.' and 'pp\.' under re.I
VolMarkers == {"vol.", "Vol."}
NoMarkers  == {"no.", "No."}
PpMarkers  == {"pp.", "Pp."}

\* atoms made of digits
NumberAtoms == {"3", "7", "20", "273", "297", "1995"}

\* the number of digits of a number atom
NumberLen(a) ==
    CASE a \in {"3", "7"}     -> 1
      [] a = "20"             -> 2
      [] a \in {"273", "297"} -> 3
      [] a = "1995"           -> 4

\* the atoms of [\d–\-—]
PageChars == NumberAtoms \cup {Hyphen, "<en dash>", "<em dash>"}

\* the end of the longest run of atoms of S that starts at i (i - 1 when
\* the atom at i is not in S): the greedy S+ or S*
RunEnd(text, i, S) ==
    CHOOSE j \in (i - 1)..Len(text) :
        /\ \A k \in i..j : text[k] \in S
        /\ At(text, j + 1) \notin S

\* the start of the longest run of atoms of S that ends at i
RunStart(text, i, S) ==
    CHOOSE j \in 1..(i + 1) :
        /\ \A k \in j..i : text[k] \in S
        /\ At(text, j - 1) \notin S

\* the number of digits of text[a..b]
RECURSIVE Digits(_, _, _)
Digits(text, a, b) ==
    IF a > b THEN 0 ELSE NumberLen(text[a]) + Digits(text, a + 1, b)

NoMatch == [matched |-> FALSE, groups |-> <<>>]

\* marker \s* (S+), anchored at i; one group
MarkerAt(text, i, markers, S) ==
    LET a == RunEnd(text, i + 1, Whitespace) + 1
        e == RunEnd(text, a, S)
    IN  IF At(text, i) \in markers /\ e >= a
        THEN [matched |-> TRUE, groups |-> <<SubSeq(text, a, e)>>]
        ELSE NoMatch

\* re.search(marker \s* (S+), text, re.I)
MarkerSearch(text, markers, S) ==
    LET starts == {i \in 1..Len(text) : MarkerAt(text, i, markers, S).matched}
    IN  IF starts = {} THEN NoMatch
        ELSE MarkerAt(text, CHOOSE i \in starts : \A j \in starts : i <= j,
                      markers, S)

\* (\d+) \s* \( (\d+) \) sep \s* ([\d–\-—]+) with the number at a
VolumeIssuePagesAt(text, a, sep, blanks) ==
    LET e1 == RunEnd(text, a, NumberAtoms)
        p  == IF blanks THEN RunEnd(text, e1 + 1, Whitespace) + 1 ELSE e1 + 1
        e2 == RunEnd(text, p + 1, NumberAtoms)
        q  == IF blanks THEN RunEnd(text, e2 + 3, Whitespace) + 1 ELSE e2 + 3
        e3 == RunEnd(text, q, PageChars)
    IN  IF /\ e1 >= a /\ At(text, p) = "(" /\ e2 >= p + 1
           /\ At(text, e2 + 1) = ")" /\ At(text, e2 + 2) = sep /\ e3 >= q
        THEN [matched |-> TRUE,
              groups |-> <<SubSeq(text, a, e1), SubSeq(text, p + 1, e2),
                           SubSeq(text, q, e3)>>]
        ELSE NoMatch

\* lines 279-283: pattern k of the list, anchored at i
PatternAt(k, text, i) ==
    CASE k = 1 -> \* (\d+)\s*\((\d+)\):\s*([\d–\-—]+)
                  VolumeIssuePagesAt(text, i, ":", TRUE)
      [] k = 2 -> \* ,\s*(\d+)\s*\((\d+)\),\s*([\d–\-—]+)
                  IF At(text, i) = ","
                  THEN VolumeIssuePagesAt(
                           text, RunEnd(text, i + 1, Whitespace) + 1, ",", TRUE)
                  ELSE NoMatch
      [] k = 3 -> \* \d{4};(\d+)\((\d+)\):([\d–\-—]+), anchored at the ';'
                  IF /\ At(text, i) = ";"
                     /\ Digits(text, RunStart(text, i - 1, NumberAtoms), i - 1) >= 4
                  THEN VolumeIssuePagesAt(text, i + 1, ":", FALSE)
                  ELSE NoMatch
      [] k = 4 -> \* \s(\d+)\s*\((\d+)\):\s*([\d–\-—]+)
                  IF At(text, i) \in Whitespace
                  THEN VolumeIssuePagesAt(text, i + 1, ":", TRUE)
                  ELSE NoMatch
      [] k = 5 -> \* \s(\d+):\s*([\d–\-—]+)
                  LET e1 == RunEnd(text, i + 1, NumberAtoms)
                      q  == RunEnd(text, e1 + 2, Whitespace) + 1
                      e3 == RunEnd(text, q, PageChars)
                  IN  IF /\ At(text, i) \in Whitespace /\ e1 >= i + 1
                         /\ At(text, e1 + 1) = ":" /\ e3 >= q
                      THEN [matched |-> TRUE,
                            groups |-> <<SubSeq(text, i + 1, e1),
                                         SubSeq(text, q, e3)>>]
                      ELSE NoMatch

\* line 287: re.search(pattern, text), the leftmost match
PatternSearch(k, text) ==
    LET starts == {i \in 1..Len(text) : PatternAt(k, text, i).matched}
    IN  IF starts = {} THEN NoMatch
        ELSE PatternAt(k, text, CHOOSE i \in starts : \A j \in starts : i <= j)

\* line 264
HasVol(text) == \E i \in 1..Len(text) : text[i] \in VolMarkers

\* lines 264-275: the markers
MarkerStage(text) ==
    LET vol_match   == MarkerSearch(text, VolMarkers, NumberAtoms)
        issue_match == MarkerSearch(text, NoMarkers, NumberAtoms)
        page_match  == MarkerSearch(text, PpMarkers, PageChars)
    IN  IF HasVol(text)
        THEN [volume |-> IF vol_match.matched THEN vol_match.groups[1]
                         ELSE <<Hyphen>>,
              issue  |-> IF issue_match.matched THEN issue_match.groups[1]
                         ELSE <<Hyphen>>,
              page_range |-> IF page_match.matched
                             THEN normalize_page_range(page_match.groups[1])
                             ELSE <<Hyphen>>]
        ELSE [volume |-> <<Hyphen>>, issue |-> <<Hyphen>>,
              page_range |-> <<Hyphen>>]

\* line 277: the cascade is entered
CascadeEntered(text, page_range) == page_range = <<Hyphen>>

\* lines 277-296: the cascade of patterns
CascadeStage(text, before) ==
    LET hits == {k \in 1..5 : PatternSearch(k, text).matched}
        k    == CHOOSE h \in hits : \A g \in hits : h <= g
        m    == PatternSearch(k, text).groups
    IN  IF ~CascadeEntered(text, before.page_range) \/ hits = {} THEN before
        ELSE IF k <= 4
        THEN [volume |-> m[1], issue |-> m[2],
              page_range |-> normalize_page_range(m[3])]
        ELSE [volume |-> m[1], issue |-> <<Hyphen>>,
              page_range |-> normalize_page_range(m[2])]

\* lines 298-301: the pages after 'pp.'
PpStage(text, before) ==
    LET pp_match == MarkerSearch(text, PpMarkers, PageChars)
    IN  IF before.page_range = <<Hyphen>> /\ pp_match.matched
        THEN [before EXCEPT
                 !.page_range = normalize_page_range(pp_match.groups[1])]
        ELSE before

\* lines 262-301
VolumeIssuePages(text) ==
    PpStage(text, CascadeStage(text, MarkerStage(text)))

\* pieces of reference text
Fragments ==
    { <<"vol.", " ", "20">>, <<"Vol.", "20">>, <<"no.", " ", "3">>,
      <<"pp.", " ", "273", "<en dash>", "297">>, <<",", " ">>, <<" ">>,
      <<"7", "(", "3", ")", ":", " ", "273", Hyphen, "297">>,
      <<"7", " ", "(", "3", ")", ",", " ", "273">>,
      <<"1995", ";", "7", "(", "3", ")", ":", "273">>,
      <<"7", ":", "273", Hyphen, "297">>, <<"1995">>, <<"pp.", Hyphen>> }

RECURSIVE Joined(_)
Joined(frags) ==
    IF frags = <<>> THEN <<>> ELSE Head(frags) \o Joined(Tail(frags))

InitVolume ==
    /\ LoopIdle
    /\ pc = "volume"
    /\ arg \in {Joined(f) : f \in SeqsUpTo(Fragments, MaxFrags)}
    /\ ret = <<>>

CallVolumeIssuePages ==
    /\ pc = "volume"
    /\ ret' = VolumeIssuePages(arg)
    /\ pc' = "volume_returned"
    /\ UNCHANGED <<arg, loopVars>>

NextVolume == CallVolumeIssuePages

SpecVolume == InitVolume /\ [][NextVolume]_vars

----------------------------------------------------------------------------
(* The claims. *)

\* a verdict has just been appended; the locals are those of its iteration
Emitted == pc = "for" /\ results # <<>>

Last == results[Len(results)]

\* an external record was found for the reference of the last verdict
Found == oa_record # NoRecord

\* C1: process_references never aborts: whatever the lookups return, no
\* exception leaves the loop, and at the end every reference has a verdict.
C1_NeverAborts ==
    /\ pc # "raised"
    /\ pc = "returned" => Len(results) = Len(references)

\* the seven rows of the decision table of the specification, top to bottom;
\* row 4 fires on unequal normalized DOIs, or (guarded) only when the
\* external record has a DOI as well
C2_Table(original, external, lookup_ok, similarity, by_title, guarded) ==
    LET equal == normalize_doi(original) = normalize_doi(external)
    IN  IF Truthy(original) /\ lookup_ok /\ similarity < 70
        THEN <<"doi_title_mismatch", None>>
        ELSE IF Truthy(original) /\ similarity >= 70 /\ equal
        THEN <<"original_correct", original>>
        ELSE IF Truthy(original) /\ by_title /\ Truthy(external)
        THEN <<"title_matched_doi_corrected", external>>
        ELSE IF Truthy(original) /\ ~equal /\ (guarded => Truthy(external))
        THEN <<"original_wrong_corrected", external>>
        ELSE IF Truthy(original)
        THEN <<"original_unverified", original>>
        ELSE IF Truthy(external)
        THEN <<"filled_from_database", external>>
        ELSE <<"missing", None>>

C2_Decided(guarded) ==
    (Emitted /\ Found) =>
        <<Last.doi_fill_status, Last.filled_doi>> =
            C2_Table(parsed.doi, oa_meta.oa_doi, doi_lookup_success,
                     final_title_similarity, matched_by_title, guarded)

\* C2 (as stated): with an external record, the DOI fill status and filled DOI
\* are those of the first matching row of the seven-row decision table.
C2_DecisionTable == C2_Decided(FALSE)

\* C2 (amended): the same, with row 4 (original_wrong_corrected) applying
\* only when the external record has a DOI; without one the status is
\* original_unverified and the original DOI is kept.
C2_DecisionTableAmended == C2_Decided(TRUE)

\* an original DOI, an external record without a DOI, and no title mismatch
C2_Witness ==
    /\ Emitted /\ Found /\ Truthy(parsed.doi) /\ ~Truthy(oa_meta.oa_doi)
    /\ Last.doi_fill_status = "original_unverified"

\* C3: an original DOI, a successful DOI lookup and a final title similarity
\* below 70 give doi_title_mismatch and no filled DOI, whether or not the
\* normalized DOIs are equal.
C3_DoiTitleMismatch ==
    (Emitted /\ Found /\ Truthy(parsed.doi) /\ doi_lookup_success
       /\ final_title_similarity < 70)
    => (Last.doi_fill_status = "doi_title_mismatch" /\ Last.filled_doi = None)

\* the mismatch verdict of a record whose DOI is the reference's own
C3_Witness ==
    /\ Emitted /\ Found /\ Truthy(parsed.doi) /\ doi_lookup_success
    /\ final_title_similarity < 70
    /\ normalize_doi(oa_meta.oa_doi) = normalize_doi(parsed.doi)
    /\ Last.doi_fill_status = "doi_title_mismatch"

\* C4: an original DOI, a final title similarity of at least 70 and an
\* external DOI that normalizes to the same value give original_correct, and
\* the filled DOI is the original DOI as parsed.
C4_OriginalCorrect ==
    (Emitted /\ Found /\ Truthy(parsed.doi) /\ final_title_similarity >= 70
       /\ normalize_doi(oa_meta.oa_doi) = normalize_doi(parsed.doi))
    => (Last.doi_fill_status = "original_correct" /\ Last.filled_doi = parsed.doi)

\* original_correct for a DOI that differs from its normalized form
C4_Witness ==
    /\ Emitted /\ Found /\ Last.doi_fill_status = "original_correct"
    /\ Last.filled_doi = <<"10.1234/", "ABC">>
    /\ normalize_doi(parsed.doi) # parsed.doi
    /\ oa_meta.oa_doi = <<"https://doi.org/", "10.1234/", "abc">>

\* C5: with no external record (no DOI lookup succeeded and no title
\* candidate was accepted) the verdict is unverified, its data source "None",
\* its filled DOI none, and its fill status "unverified" with an original DOI
\* and "missing" without.
C5_NoRecord ==
    (Emitted /\ oa_record_from_doi = NoRecord /\ ~matched_by_title)
    => /\ Last.status = "unverified"
       /\ Last.data_source = "None"
       /\ Last.filled_doi = None
       /\ Last.doi_fill_status = IF Truthy(parsed.doi) THEN "unverified" ELSE "missing"

\* a reference with a DOI, no DOI record and title candidates all rejected
C5_Witness ==
    /\ Emitted /\ oa_record_from_doi = NoRecord /\ ~matched_by_title
    /\ Truthy(parsed.doi) /\ candidates # <<>>
    /\ Last.doi_fill_status = "unverified"

\* the score of the specification: title, surname and year points
C6_Score(parsed_ref, meta) ==
    LET similarity  == meta.oa_title.score
        ref_surname == extract_surname(parsed_ref.ref_first_author)
        oa_surname  == extract_surname(meta.oa_first_author)
        ref_year    == parsed_ref.ref_year
        oa_year     == meta.oa_year
    IN  (IF similarity >= 90 THEN 2 ELSE IF similarity >= 80 THEN 1 ELSE 0)
        + (IF ref_surname # <<>> /\ ref_surname = oa_surname THEN 1 ELSE 0)
        + (IF ref_year.t = "int" /\ oa_year.t = "int"
              /\ Abs(ref_year.v - oa_year.v) <= 2 THEN 1 ELSE 0)

C6_Class(score) ==
    IF score >= 4 THEN [status |-> "verified", confidence |-> "high"]
    ELSE IF score >= 2 THEN [status |-> "ambiguous", confidence |-> "medium"]
    ELSE [status |-> "unverified", confidence |-> "low"]

\* C6: verify_status returns the class of the score 2/1/0 for the title
\* similarity, plus 1 for equal non-empty surnames, plus 1 for two present
\* years at most 2 apart: verified/high from 4, ambiguous/medium from 2,
\* unverified/low below.
C6_VerifyStatusScore ==
    pc = "verify_status_returned" =>
        ret[1] = Return(C6_Class(C6_Score(arg.parsed_ref, arg.meta)))

\* the year comparison of the specification
C7_Year(ref_year, oa_year) ==
    IF ref_year.t # "int" \/ oa_year.t # "int"
    THEN [oa_year_delta |-> NoneVal, oa_year_diff |-> "True"]
    ELSE LET delta == Abs(ref_year.v - oa_year.v)
         IN  [oa_year_delta |-> IntVal(delta),
              oa_year_diff  |-> IF delta = 0 THEN "False"
                                ELSE IF delta <= 2 THEN "minor" ELSE "True"]

\* C7: compare_metadata flags the year as differing (true), with no delta,
\* when the parsed year is absent or the external year is not an integer;
\* otherwise the delta is the absolute difference and the flag is false for
\* 0, "minor" for 1 or 2 and true above 2.
C7_CompareYear ==
    pc = "compare_metadata_returned" =>
        /\ ret[1].raises = ""
        /\ [oa_year_delta |-> ret[1].value.oa_year_delta,
            oa_year_diff  |-> ret[1].value.oa_year_diff]
             = C7_Year(arg.parsed_ref.ref_year, arg.meta.oa_year)

\* the lines of the text that hold more than whitespace, in order
C8_NonBlank(ls) ==
    SelectSeq(ls, LAMBDA l : \E i \in 1..Len(l) : l[i] \notin Whitespace)

\* C8: the list returned by process_references has one verdict per non-empty
\* line of the text, the i-th for the i-th such line (as main hands it over,
\* without its surrounding whitespace): none dropped, duplicated or reordered.
C8_OnePerLine ==
    LET expected == C8_NonBlank(lines)
    IN  /\ Len(results) <= Len(expected)
        /\ \A i \in 1..Len(results) :
               /\ results[i].raw_reference = references[i]
               /\ results[i].raw_reference = Strip(expected[i])
        /\ pc = "returned" => Len(results) = Len(expected)

\* a returned list of two verdicts for two different lines
C8_Witness ==
    /\ pc = "returned" /\ Len(results) = 2
    /\ results[1].raw_reference = LineDoi
    /\ results[2].raw_reference = LineTitle

\* C9: parse_reference returns a parsed reference for every line, the empty
\* and the whitespace-only line included, and never raises.
C9_ParseReferenceTotal ==
    pc = "parse_reference_returned" => ret[1].raises = ""

\* C10: normalize_doi is idempotent: normalising the result of normalize_doi
\* again gives the same value, for every input string.
C10_NormalizeDoiIdempotent ==
    pc = "returned" => ret[2] = ret[1]

\* C20: on every pair of a parsed year (none or an integer, 0 included) and
\* an external year (none, an integer or "Unknown") neither compare_metadata
\* nor verify_status fails, and verify_status awards the year point exactly
\* when compare_metadata classifies the year as false or "minor".
C20_YearAgreement ==
    pc = "year_returned" =>
        /\ ret[1].raises = "" /\ ret[2].raises = ""
        /\ (ret[2].value = 1) <=> (ret[1].value.oa_year_diff \in {"False", "minor"})

\* C19: in every verdict the fill status determines the filled DOI: none
\* exactly for doi_title_mismatch, unverified and missing; the external
\* record's non-empty DOI for filled_from_database,
\* title_matched_doi_corrected and original_wrong_corrected; the original
\* DOI for original_correct and original_unverified.
C19_FilledByStatus ==
    \A i \in 1..Len(results) :
        LET r == results[i]
        IN  /\ (r.filled_doi = None) <=>
                  r.doi_fill_status \in {"doi_title_mismatch", "unverified", "missing"}
            /\ r.doi_fill_status \in {"filled_from_database",
                                      "title_matched_doi_corrected",
                                      "original_wrong_corrected"}
                  => (Truthy(r.oa_doi) /\ r.filled_doi = r.oa_doi)
            /\ r.doi_fill_status \in {"original_correct", "original_unverified"}
                  => r.filled_doi = r.doi

\* a verdict that replaces the original DOI by the record's
C19_Witness ==
    /\ Emitted /\ Last.doi_fill_status = "original_wrong_corrected"
    /\ Last.filled_doi # Last.doi /\ Truthy(Last.doi)

\* C12: every verdict with an external record is made by the normalizer of
\* the provider that returned the record and names that provider as its
\* data source, also when a DOI-resolved record is kept after a title
\* search that found no candidate or none above the acceptance threshold.
C12_SourceIsProvider ==
    (Emitted /\ Found) => Last.data_source = oa_record.provider

\* C13: between any two successive requests to a provider, within one
\* reference and from one reference to the next, a pacing delay is
\* executed, whatever the earlier request returned.
C13_PacedRequests ==
    [][Len(calls') > Len(calls) => last_event # "request"]_vars

\* the position of a request in the order of the specification
C14_Rank(fn) ==
    CASE fn = "query_openalex_by_doi"   -> 1
      [] fn = "query_crossref_by_doi"   -> 2
      [] fn = "query_openalex_by_title" -> 3
      [] fn = "query_crossref_by_title" -> 4

\* C14: the requests of one reference are a subsequence of OpenAlex by DOI,
\* Crossref by DOI, OpenAlex by title, Crossref by title, each sent at most
\* once; Crossref by DOI only after OpenAlex by DOI returned no record, and
\* Crossref by title only after OpenAlex by title returned no candidates.
C14_CallOrder ==
    /\ \A i, j \in 1..Len(calls) :
           i < j => C14_Rank(calls[i].fn) < C14_Rank(calls[j].fn)
    /\ \A j \in 1..Len(calls) :
           /\ calls[j].fn = "query_crossref_by_doi" =>
                  \E i \in 1..(j - 1) :
                      calls[i].fn = "query_openalex_by_doi" /\ ~calls[i].found
           /\ calls[j].fn = "query_crossref_by_title" =>
                  \E i \in 1..(j - 1) :
                      calls[i].fn = "query_openalex_by_title" /\ ~calls[i].found

\* a reference for which all four requests were sent
C14_Witness ==
    Emitted /\ Len(calls) = 4

\* a title search request was sent for the current reference
C15_Searched ==
    \E i \in 1..Len(calls) : calls[i].fn = "query_openalex_by_title"

\* no record by DOI, or one whose title is less than 70 similar
C15_Unresolved ==
    oa_record_from_doi = NoRecord \/ title_similarity_score < 70

\* C15 (as stated): a title search is performed whenever no record was
\* resolved by DOI or the DOI-resolved record's title similarity is below
\* 70, and only then.
C15_TitleSearch ==
    pc = "verdict" => (C15_Searched <=> C15_Unresolved)

\* C15 (amended): a title search is performed exactly when the parsed title
\* is not the sentinel "Unknown" (nor empty) and no record was resolved by
\* DOI or the DOI-resolved record's title similarity is below 70.
C15_TitleSearchAmended ==
    pc = "verdict" =>
        (C15_Searched <=> (/\ C15_Unresolved
                           /\ parsed.ref_title # Unknown
                           /\ Truthy(parsed.ref_title)))

\* a reference without a title and without a record by DOI: no search
C15_Witness ==
    /\ pc = "verdict" /\ parsed.ref_title = Unknown /\ Truthy(parsed.doi)
    /\ oa_record_from_doi = NoRecord /\ ~C15_Searched

\* the greatest title similarity among the candidates
C16_Max ==
    CHOOSE m \in {candidates[i].title.score : i \in 1..Len(candidates)} :
        \A i \in 1..Len(candidates) : candidates[i].title.score <= m

\* the first candidate of that similarity
C16_Earliest ==
    CHOOSE i \in 1..Len(candidates) :
        /\ candidates[i].title.score = C16_Max
        /\ \A j \in 1..(i - 1) : candidates[j].title.score < C16_Max

\* C16: when a title search returned candidates, the earliest candidate of
\* the greatest title similarity replaces the record, and matched_by_title
\* is set, exactly when that similarity is at least 85; otherwise the
\* record stays the DOI-resolved one and the flag stays false.
C16_BestCandidate ==
    (pc = "verdict" /\ candidates # <<>>) =>
        IF C16_Max >= 85
        THEN oa_record = candidates[C16_Earliest] /\ matched_by_title
        ELSE oa_record = oa_record_from_doi /\ ~matched_by_title

\* two candidates of the same accepted similarity: the first is taken
C16_Witness ==
    /\ pc = "verdict" /\ Len(candidates) = 2 /\ matched_by_title
    /\ candidates[1].title.score = candidates[2].title.score
    /\ oa_record = candidates[1] /\ oa_record # candidates[2]

\* C18: a DOI-resolved record stays the record of the verdict unless a
\* title-search candidate of similarity at least 85 replaces it, also when
\* its own similarity is below 70; so a verdict doi_title_mismatch always
\* has matched_by_title false.
C18_DoiRecordKept ==
    /\ (pc = "verdict" \/ Emitted) =>
          /\ ~matched_by_title => oa_record = oa_record_from_doi
          /\ matched_by_title =>
                \E i \in 1..Len(candidates) :
                    oa_record = candidates[i] /\ candidates[i].title.score >= 85
    /\ (Emitted /\ Last.doi_fill_status = "doi_title_mismatch") =>
          /\ ~matched_by_title
          /\ oa_record = oa_record_from_doi /\ oa_record # NoRecord

\* a mismatch verdict on a DOI-resolved record kept after a title search
\* whose candidates were all rejected
C18_Witness ==
    /\ Emitted /\ Last.doi_fill_status = "doi_title_mismatch"
    /\ candidates # <<>> /\ title_similarity_score < 70
    /\ oa_record = oa_record_from_doi

\* the number of hyphens of a page string
C11_Hyphens(s) == Cardinality({i \in 1..Len(s) : s[i] = Hyphen})

\* C11: every page range returned by normalize_page_range is the sentinel
\* "-" or two non-empty halves separated by exactly one hyphen.
C11_PageRangeShape ==
    pc = "normalize_page_range_returned" =>
        \/ ret = <<Hyphen>>
        \/ /\ C11_Hyphens(ret) = 1
           /\ ret[1] # Hyphen /\ ret[Len(ret)] # Hyphen

\* the number after a marker, "-" when the marker has none
C17_After(text, markers) ==
    IF MarkerSearch(text, markers, NumberAtoms).matched
    THEN MarkerSearch(text, markers, NumberAtoms).groups[1]
    ELSE <<Hyphen>>

\* C17: when the text contains 'vol.', the volume is the number after
\* 'vol.' and the issue the number after 'no.' ("-" when absent); the
\* pattern cascade never overrides them.
C17_MarkersWin ==
    (pc = "volume_returned" /\ HasVol(arg)) =>
        /\ ret.volume = C17_After(arg, VolMarkers)
        /\ ret.issue = C17_After(arg, NoMarkers)

====
